---- MODULE Spec2Model ----
(***************************************************************************)
(* PostgresPlugin: connection lifecycle of execute / metadata / test.      *)
(*                                                                         *)
(* The repository holds two revisions of the plugin class:                 *)
(*   src/src/index.ts       (createConnection / destroyConnection, close   *)
(*                           is started in `finally` and not awaited)      *)
(*   src/unnamed/part_000   (createClient, `await client.end()` in         *)
(*                           `finally`)                                    *)
(* The variable `version` fixes which revision a behaviour runs.           *)
(*                                                                         *)
(* Every `await` of an asynchronous handler is a suspension point: one     *)
(* action models the code that runs from one suspension point to the next. *)
(* The driver (pg.Client) is external: each of connect / query / end       *)
(* resolves or rejects, chosen nondeterministically.                       *)
(***************************************************************************)
EXTENDS Integers, Sequences, FiniteSets, TLC

\* ---- bounds ---------------------------------------------------------------
NumOps == 2        \* operations the host issues concurrently on one plugin
MaxColumnRows == 3 \* longest column-catalog result that is folded
MaxKeyRows == 2    \* longest constraint-catalog result that is folded

\* ---- values ---------------------------------------------------------------
Ops == 1..NumOps
ClientIds == 1..NumOps      \* every operation creates at most one pg.Client
NoClient == 0               \* `client` is null / undefined / not yet assigned

Versions == {"index.ts", "part_000"}

\* actionConfiguration.body: undefined, or a string (a sequence of characters):
\* the empty string, a whitespace-only string, a statement
NoBody == [defined |-> FALSE, text |-> <<>>]
Bodies == {NoBody}
            \cup {[defined |-> TRUE, text |-> s] : s \in {<<>>, <<" ">>, <<"a">>}}

\* context.preparedStatementContext: the positional values of the statement
PreparedStatementContexts == {<<1>>, <<2, 1>>}

\* PostgresDatasourceConfiguration, as far as createConnection reads it.
\* present = FALSE is a null/undefined configuration.
NullConfig == [present |-> FALSE, endpoint |-> FALSE, authentication |-> FALSE,
               databaseName |-> FALSE]
Configs == {NullConfig}
             \cup {c \in [present : {TRUE}, endpoint : BOOLEAN, authentication : BOOLEAN,
                           databaseName : BOOLEAN] :
                    c.databaseName => c.authentication}
ValidConfig(cfg) == cfg.present /\ cfg.endpoint /\ cfg.authentication /\ cfg.databaseName

\* messages of errors the driver rejects with, one per driver call
ConnectErrors == {<<"ECONNREFUSED">>}
QueryErrors == {<<"syntax error">>}
EndErrors == {<<"end failed">>}

\* the statements the plugin issues besides the user's SQL
TableQuery == <<"select a.attname as name, ... order by c.relname, a.attnum;">>
KeysQuery == <<"select c.conname as constraint_name, ... order by self_schema, self_table">>
LivenessQuery == <<"SELECT NOW()">>

\* rows the driver answers the user's SQL with (objects have unique keys)
QueryRowSets == {<<[id |-> 1]>>}

\* rows the driver answers the column-catalog query with
ColumnRow(n, t, tn) == [name |-> n, column_type |-> t, table_name |-> tn]
TableRowSets ==
  { << ColumnRow(<<"i", "d">>, "int4", "orders"),
       ColumnRow(<<"I", "d">>, "text", "orders") >> }

\* rows the driver answers the constraint-catalog query with
KeyRow(cn, ct, st) == [constraint_name |-> cn, constraint_type |-> ct, self_table |-> st]
KeyRowSets ==
  { << KeyRow("orders_pkey", "p", "orders"), KeyRow("items_fkey", "f", "items") >> }

\* ---- pure functions -------------------------------------------------------

\* a check for `undefined` alone, which lets the empty string through
isEmptyUndefinedOnly(query) == ~query.defined

\* lodash isEmpty on a string or undefined: no trimming
isEmpty(query) == ~query.defined \/ Len(query.text) = 0

\* new IntegrationError(`${prefix}${err.message}`): messages are sequences of pieces
IntegrationError(prefix, message) == <<prefix>> \o message

QueryFailedPrefix == "Postgres query failed, "
FailedToConnectPrefix == "Failed to connect to Postgres, "
TestFailedPrefix == "Test Postgres connection failed, "

\* createConnection with one message shared by the last two preconditions
createConnectionCheckSharedMessage(cfg) ==
  IF ~cfg.present THEN <<"Datasource not found for Postgres step">>
  ELSE IF ~cfg.endpoint THEN <<"Endpoint not specified for Postgres step">>
  ELSE IF ~cfg.authentication THEN <<"Authentication not specified for Postgres step">>
  ELSE IF ~cfg.databaseName THEN <<"Authentication not specified for Postgres step">>
  ELSE <<>>

\* createConnection, lines 122-135: the message of the precondition that is
\* violated, <<>> when none is
createConnectionCheck(cfg) ==
  IF ~cfg.present THEN <<"Datasource not found for Postgres step">>
  ELSE IF ~cfg.endpoint THEN <<"Endpoint not specified for Postgres step">>
  ELSE IF ~cfg.authentication THEN <<"Authentication not specified for Postgres step">>
  ELSE IF ~cfg.databaseName THEN <<"Database not specified for Postgres step">>
  ELSE <<>>

\* createClient of part_000: the null check is outside its try, the other
\* three are inside and are re-wrapped by its catch
createClientCheck(cfg) ==
  IF ~cfg.present THEN <<"Datasource not found for Postgres step">>
  ELSE IF createConnectionCheck(cfg) # <<>>
       THEN IntegrationError(FailedToConnectPrefix, createConnectionCheck(cfg))
       ELSE <<>>

\* the message open throws when a precondition is violated (<<>>: none)
OpenCheck(v, cfg) ==
  IF v = "index.ts" THEN createConnectionCheck(cfg) ELSE createClientCheck(cfg)

\* the message open throws when client.connect() rejects with `message`:
\* createConnection lets it through, createClient wraps it
OpenRejected(v, message) ==
  IF v = "index.ts" THEN message ELSE IntegrationError(FailedToConnectPrefix, message)

\* normalizeTableColumnNames of @superblocksteam/shared-backend: rows whose
\* keys do not collide are returned as they are
normalizeTableColumnNames(rows) == rows

\* String.prototype.toLowerCase over the characters the model uses
LowerChar(ch) == IF ch = "I" THEN "i" ELSE IF ch = "D" THEN "d" ELSE ch
toLowerCase(s) == [i \in DOMAIN s |-> LowerChar(s[i])]

Column(name, type) == [name |-> name, type |-> type]
Table(name, type) == [name |-> name, type |-> type, columns |-> <<>>, keys |-> <<>>]

\* a lookup that trusts the catalog's ordering and looks at the last table only
FindLastTable(acc, entityName) ==
  IF Len(acc) > 0 /\ acc[Len(acc)].name = entityName THEN Len(acc) ELSE 0

\* acc.find((o) => o.name === entityName): index of the first match, 0 if none
FindTable(acc, entityName) ==
  IF \E i \in 1..Len(acc) : acc[i].name = entityName
  THEN CHOOSE i \in 1..Len(acc) :
         /\ acc[i].name = entityName
         /\ \A j \in 1..(i - 1) : acc[j].name # entityName
  ELSE 0

\* the reducer of metadata, lines 75-91
FoldColumn(acc, attribute) ==
  LET entityName == attribute.table_name
      i == FindTable(acc, entityName)
      isColumnNameCased == ~(attribute.name = toLowerCase(attribute.name))
  IN IF i # 0
     THEN [acc EXCEPT ![i].columns =
             Append(@, Column(IF isColumnNameCased
                              THEN <<"\"">> \o attribute.name \o <<"\"">>
                              ELSE attribute.name,
                              attribute.column_type))]
     ELSE Append(acc, [Table(entityName, "TABLE") EXCEPT
                         !.columns = <<Column(attribute.name, attribute.column_type)>>])

RECURSIVE FoldColumns(_, _)
FoldColumns(rows, acc) ==
  IF rows = <<>> THEN acc ELSE FoldColumns(Tail(rows), FoldColumn(acc, Head(rows)))

\* the kind test written the other way round: 'f' is foreign, the rest primary
FoldKeyForeignTested(entities, key) ==
  LET i == FindTable(entities, key.self_table)
  IN IF i # 0
     THEN [entities EXCEPT ![i].keys =
             Append(@, [name |-> key.constraint_name,
                        type |-> IF key.constraint_type = "f"
                                 THEN "foreign_key" ELSE "primary_key"])]
     ELSE entities

\* a table is made up for a constraint whose table is unknown
FoldKeyCreatesTable(entities, key) ==
  LET i == FindTable(entities, key.self_table)
      k == [name |-> key.constraint_name,
            type |-> IF key.constraint_type = "p" THEN "primary_key" ELSE "foreign_key"]
  IN IF i # 0
     THEN [entities EXCEPT ![i].keys = Append(@, k)]
     ELSE Append(entities, [Table(key.self_table, "TABLE") EXCEPT !.keys = <<k>>])

\* a key already listed for the table is not listed again
FoldKeyDeduplicated(entities, key) ==
  LET i == FindTable(entities, key.self_table)
      k == [name |-> key.constraint_name,
            type |-> IF key.constraint_type = "p" THEN "primary_key" ELSE "foreign_key"]
  IN IF i # 0 /\ \A n \in DOMAIN entities[i].keys : entities[i].keys[n] # k
     THEN [entities EXCEPT ![i].keys = Append(@, k)]
     ELSE entities

\* the forEach of metadata, lines 97-102
FoldKey(entities, key) ==
  LET i == FindTable(entities, key.self_table)
  IN IF i # 0
     THEN [entities EXCEPT ![i].keys =
             Append(@, [name |-> key.constraint_name,
                        type |-> IF key.constraint_type = "p"
                                 THEN "primary_key" ELSE "foreign_key"])]
     ELSE entities

RECURSIVE FoldKeys(_, _)
FoldKeys(rows, entities) ==
  IF rows = <<>> THEN entities ELSE FoldKeys(Tail(rows), FoldKey(entities, Head(rows)))

\* ---- the TLS options of open ----------------------------------------------

\* connectionTimeoutMillis: the default of createConnection, and what test
\* passes
DefaultConnectionTimeout == 30000
TEST_CONNECTION_TIMEOUT == 5000

\* a property that is not set reads "undefined"; a flag is otherwise "false"
\* or "true", a certificate, key or CA otherwise its PEM text
Undefined == "undefined"
Flags == {Undefined, "false", "true"}
Truthy(v) == v = "true"

\* datasourceConfiguration.connection: undefined (present = FALSE), or its
\* five properties that open reads
NoConnection == [present |-> FALSE, useSsl |-> Undefined, useSelfSignedSsl |-> Undefined,
                 ca |-> Undefined, key |-> Undefined, cert |-> Undefined]
Connections ==
  {NoConnection}
    \cup [present : {TRUE}, useSsl : Flags, useSelfSignedSsl : Flags,
          ca : {Undefined, "CA"}, key : {Undefined, "KEY"}, cert : {Undefined, "CERT"}]

\* ssl_config: undefined (defined = FALSE), or an object with its properties
SslUndefined == [defined |-> FALSE, rejectUnauthorized |-> Undefined,
                 ca |-> Undefined, key |-> Undefined, cert |-> Undefined]

\* the key material attached whenever self-signed mode is selected, TLS on
\* or off
sslConfigSelfSignedAlone(connection) ==
  LET on == connection.present /\ Truthy(connection.useSsl)
  IN IF connection.present /\ Truthy(connection.useSelfSignedSsl)
     THEN [defined |-> TRUE,
           rejectUnauthorized |-> IF on THEN "false" ELSE Undefined,
           ca |-> connection.ca, key |-> connection.key, cert |-> connection.cert]
     ELSE IF on THEN [SslUndefined EXCEPT !.defined = TRUE, !.rejectUnauthorized = "false"]
     ELSE SslUndefined

\* createConnection lines 137-147: ssl_config as a function of the connection
sslConfig(connection) ==
  IF connection.present /\ Truthy(connection.useSsl)
  THEN IF Truthy(connection.useSelfSignedSsl)
       THEN [defined |-> TRUE, rejectUnauthorized |-> "false",
             ca |-> connection.ca, key |-> connection.key, cert |-> connection.cert]
       ELSE [SslUndefined EXCEPT !.defined = TRUE, !.rejectUnauthorized = "false"]
  ELSE SslUndefined

\* ---- state ----------------------------------------------------------------
VARIABLES
  version,   \* the revision of the plugin class that runs
  ops,       \* ops[o]: one invocation of execute / metadata / test
  clients,   \* clients[c]: one pg.Client object
  fold,      \* one run of the two folds of metadata, row by row
  tls        \* one run of open from the precondition checks to new Client

vars == <<version, ops, clients, fold, tls>>

\* how an invocation is over: nothing yet, a returned value, a thrown error
Pending == [type |-> "none", message |-> <<>>, outputSet |-> FALSE, output |-> <<>>]
Return(outputSet, output) ==
  [type |-> "return", message |-> <<>>, outputSet |-> outputSet, output |-> output]
Throw(message) ==
  [type |-> "throw", message |-> message, outputSet |-> FALSE, output |-> <<>>]

\* pc: "idle", "connecting" (await client.connect()), "querying" (await
\* client.query of execute / test), "tableQuery", "keysQuery" (the two awaits
\* of metadata), "closing" (await client.end(), part_000 only), "done".
\* body, params: actionConfiguration.body and context.preparedStatementContext
\* as execute read them.
\* created: the Client built inside open; client: the handler's `client`.
IdleOp == [kind |-> "none", pc |-> "idle", cfg |-> NullConfig, body |-> NoBody,
           params |-> <<>>, created |-> NoClient, client |-> NoClient,
           entities |-> <<>>, pending |-> Pending, outcome |-> Pending]

\* conn: "none" (no such object yet), "connecting", "open", "connectFailed",
\* "ending" (end() called, not settled), "ended", "endFailed".
\* log: the driver calls made on the object and the query results, in order.
NoClientObject == [owner |-> 0, conn |-> "none", log |-> <<>>]

\* params: the second argument of client.query, <<>> when there is none
Event(o, call, text) == [op |-> o, call |-> call, text |-> text, params |-> <<>>]

\* fold.rows, fold.keysRows: the two catalog results; fold.i, fold.j: how many
\* rows of each the reducer / the forEach has consumed; fold.entities: the
\* accumulator; fold.phase: "columns", "keys" or "returned"
NoFold == [rows |-> <<>>, keysRows |-> <<>>, i |-> 0, j |-> 0, entities |-> <<>>,
           phase |-> "columns"]

\* tls.connection, tls.timeout: datasourceConfiguration.connection and the
\* connectionTimeoutMillis argument; tls.ssl_config: the local of that name;
\* tls.options: the argument of new Client; tls.step: "checked" (the
\* preconditions hold), "ssl" (ssl_config is built), "client" (new Client ran)
NoTls == [connection |-> NoConnection, timeout |-> DefaultConnectionTimeout,
          ssl_config |-> SslUndefined,
          options |-> [ssl |-> SslUndefined,
                       connectionTimeoutMillis |-> DefaultConnectionTimeout],
          step |-> "checked"]

Init ==
  /\ version \in Versions
  /\ ops = [o \in Ops |-> IdleOp]
  /\ clients = [c \in ClientIds |-> NoClientObject]
  /\ fold = NoFold
  /\ tls = NoTls

\* ---- the driver calls -----------------------------------------------------

\* one Client kept by the plugin instance and handed to every operation
SharedClient(o) == 1

\* new Client({...}): a fresh object. An invocation builds at most one, so
\* the object is identified by the invocation that builds it.
NewClient(o) == o

\* client.connect() is called
ClientConnect(cl, o) ==
  [cl EXCEPT !.owner = o, !.conn = "connecting", !.log = Append(@, Event(o, "connect", <<>>))]

\* client.query(text, ...) is called
ClientQuery(cl, o, text) == [cl EXCEPT !.log = Append(@, Event(o, "query", text))]

\* client.query(text, params) with the values dropped
ClientQueryWithoutParams(cl, o, text, params) ==
  [cl EXCEPT !.log = Append(@, Event(o, "query", text))]

\* client.query(text, params) is called
ClientQueryWith(cl, o, text, params) ==
  [cl EXCEPT !.log = Append(@, [Event(o, "query", text) EXCEPT !.params = params])]

\* the promise of client.query resolves (text: the statement) or rejects
\* (text: the message of the driver's error)
ClientResolved(cl, o, text) == [cl EXCEPT !.log = Append(@, Event(o, "resolved", text))]
ClientRejected(cl, o, message) == [cl EXCEPT !.log = Append(@, Event(o, "rejected", message))]

\* destroyConnection(client) / client.end() is called
ClientEnd(cl, o) == [cl EXCEPT !.conn = "ending", !.log = Append(@, Event(o, "end", <<>>))]

\* ---- open, close ----------------------------------------------------------

\* The synchronous part of createConnection / createClient, called from a
\* handler in state `op`: a violated precondition throws (`thrown` is what the
\* handler then throws to its caller), otherwise a Client is built and
\* client.connect() is awaited.
Open(o, op, thrown) ==
  IF OpenCheck(version, op.cfg) # <<>>
  THEN /\ ops' = [ops EXCEPT ![o] = [op EXCEPT !.pc = "done", !.outcome = Throw(thrown)]]
       /\ UNCHANGED clients
  ELSE LET c == NewClient(o)
       IN /\ clients' = [clients EXCEPT ![c] = ClientConnect(@, o)]
          /\ ops' = [ops EXCEPT ![o] = [op EXCEPT !.pc = "connecting", !.created = c]]

\* `if (client)` of the finally blocks
FinallyEnds(client) == client # NoClient

\* part_000 awaits client.end() in its finally blocks; index.ts calls
\* destroyConnection(client).catch(...) and goes on without awaiting it
AwaitsEnd(v) == v = "part_000"

\* the close written at the end of the try body instead of in a finally
\* block: a throw skips it
FinallySkippedByThrow(o, op, cs, result) ==
  IF FinallyEnds(op.client) /\ result.type = "return"
  THEN /\ clients' = [cs EXCEPT ![op.client] = ClientEnd(@, o)]
       /\ ops' = [ops EXCEPT ![o] =
                    IF AwaitsEnd(version)
                    THEN [op EXCEPT !.pc = "closing", !.pending = result]
                    ELSE [op EXCEPT !.pc = "done", !.pending = result, !.outcome = result]]
  ELSE /\ clients' = cs
       /\ ops' = [ops EXCEPT ![o] =
                    [op EXCEPT !.pc = "done", !.pending = result, !.outcome = result]]

\* The finally block of a handler in state `op`, the clients being `cs`, and
\* what follows it: `result` is the return or throw the try/catch left pending
\* (kept in op.pending).
Finally(o, op, cs, result) ==
  IF FinallyEnds(op.client)
  THEN /\ clients' = [cs EXCEPT ![op.client] = ClientEnd(@, o)]
       /\ ops' = [ops EXCEPT ![o] =
                    IF AwaitsEnd(version)
                    THEN [op EXCEPT !.pc = "closing", !.pending = result]
                    ELSE [op EXCEPT !.pc = "done", !.pending = result, !.outcome = result]]
  ELSE /\ clients' = cs
       /\ ops' = [ops EXCEPT ![o] =
                    [op EXCEPT !.pc = "done", !.pending = result, !.outcome = result]]

\* await client.end() settles (part_000): resolved, the pending return or
\* throw takes effect; rejected, the rejection leaves the finally block instead
AfterEnd(o) ==
  /\ ops[o].pc = "closing"
  /\ \/ /\ clients' = [clients EXCEPT ![ops[o].client].conn = "ended"]
        /\ ops' = [ops EXCEPT ![o].pc = "done", ![o].outcome = ops[o].pending]
     \/ \E m \in EndErrors :
          /\ clients' = [clients EXCEPT ![ops[o].client].conn = "endFailed"]
          /\ ops' = [ops EXCEPT ![o].pc = "done", ![o].outcome = Throw(m)]
  /\ UNCHANGED <<version, fold, tls>>

\* the promise of destroyConnection(client) settles (index.ts): nobody awaits
\* it and .catch(() => {}) swallows a rejection
DestroyConnectionSettles(c) ==
  /\ ~AwaitsEnd(version)
  /\ clients[c].conn = "ending"
  /\ \/ clients' = [clients EXCEPT ![c].conn = "ended"]
     \/ clients' = [clients EXCEPT ![c].conn = "endFailed"]
  /\ UNCHANGED <<version, ops, fold, tls>>

\* what open's resolution or rejection does to the Client it built
Connected(cs, c) == [cs EXCEPT ![c].conn = "open"]
ConnectFailed(cs, c) == [cs EXCEPT ![c].conn = "connectFailed"]

\* ---- execute --------------------------------------------------------------

\* execute up to `await client.connect()`. In both revisions open is awaited
\* outside the try, so what open throws leaves execute unchanged.
ExecuteCall(o) ==
  /\ ops[o].pc = "idle"
  /\ \E cfg \in Configs :
       LET op == [ops[o] EXCEPT !.kind = "execute", !.cfg = cfg]
       IN Open(o, op, OpenCheck(version, cfg))
  /\ UNCHANGED <<version, fold, tls>>

\* index.ts tests isEmpty(query) before its try: the early return runs no
\* finally. part_000 tests it inside the try.
EmptyBodyInTry(v) == v = "part_000"

\* execute from the settling of connect to the next await.
\* `const query = actionConfiguration.body` is read here, after open.
ExecuteAfterConnect(o) ==
  /\ ops[o].pc = "connecting"
  /\ ops[o].kind = "execute"
  /\ LET c == ops[o].created
     IN \/ \E m \in ConnectErrors :
             /\ clients' = ConnectFailed(clients, c)
             /\ ops' = [ops EXCEPT ![o].pc = "done",
                                   ![o].outcome = Throw(OpenRejected(version, m))]
        \/ \E query \in Bodies :
             LET op == [ops[o] EXCEPT !.client = c, !.body = query]
             IN IF isEmpty(query)
                THEN IF EmptyBodyInTry(version)
                     THEN Finally(o, op, Connected(clients, c), Return(FALSE, <<>>))
                     ELSE /\ clients' = Connected(clients, c)
                          /\ ops' = [ops EXCEPT ![o] =
                                       [op EXCEPT !.pc = "done",
                                                  !.outcome = Return(FALSE, <<>>)]]
                ELSE \E params \in PreparedStatementContexts :
                       /\ clients' = [Connected(clients, c) EXCEPT
                                        ![c] = ClientQueryWith(@, o, query.text, params)]
                       /\ ops' = [ops EXCEPT ![o] = [op EXCEPT !.pc = "querying",
                                                              !.params = params]]
  /\ UNCHANGED <<version, fold, tls>>

\* execute from the settling of client.query to the next await or the end
ExecuteAfterQuery(o) ==
  /\ ops[o].pc = "querying"
  /\ ops[o].kind = "execute"
  /\ LET op == ops[o]
     IN \/ \E rows \in QueryRowSets :
             Finally(o, op, [clients EXCEPT ![op.client] = ClientResolved(@, o, op.body.text)],
                     Return(TRUE, normalizeTableColumnNames(rows)))
        \/ \E m \in QueryErrors :
             Finally(o, op, [clients EXCEPT ![op.client] = ClientRejected(@, o, m)],
                     Throw(IntegrationError(QueryFailedPrefix, m)))
  /\ UNCHANGED <<version, fold, tls>>

\* ---- metadata -------------------------------------------------------------

\* what metadata throws when open throws `message`: index.ts awaits open
\* outside its try; part_000 awaits it inside, and its catch wraps the error
metadataOpenFailed(v, message) ==
  IF v = "index.ts" THEN message ELSE IntegrationError(FailedToConnectPrefix, message)

MetadataCall(o) ==
  /\ ops[o].pc = "idle"
  /\ \E cfg \in Configs :
       LET op == [ops[o] EXCEPT !.kind = "metadata", !.cfg = cfg]
       IN Open(o, op, metadataOpenFailed(version, OpenCheck(version, cfg)))
  /\ UNCHANGED <<version, fold, tls>>

\* both catalog queries issued together once the connection is open
MetadataAfterConnectIssuesBoth(o) ==
  /\ ops[o].pc = "connecting"
  /\ ops[o].kind = "metadata"
  /\ LET c == ops[o].created
         op == [ops[o] EXCEPT !.client = c]
     IN \/ \E m \in ConnectErrors :
             /\ clients' = ConnectFailed(clients, c)
             /\ ops' = [ops EXCEPT ![o].pc = "done",
                          ![o].outcome =
                             Throw(metadataOpenFailed(version, OpenRejected(version, m)))]
        \/ /\ clients' = [Connected(clients, c) EXCEPT
                             ![c] = ClientQuery(ClientQuery(@, o, TableQuery), o, KeysQuery)]
           /\ ops' = [ops EXCEPT ![o] = [op EXCEPT !.pc = "tableQuery"]]
  /\ UNCHANGED <<version, fold, tls>>

MetadataAfterConnect(o) ==
  /\ ops[o].pc = "connecting"
  /\ ops[o].kind = "metadata"
  /\ LET c == ops[o].created
         op == [ops[o] EXCEPT !.client = c]
     IN \/ \E m \in ConnectErrors :
             /\ clients' = ConnectFailed(clients, c)
             /\ ops' = [ops EXCEPT ![o].pc = "done",
                          ![o].outcome =
                             Throw(metadataOpenFailed(version, OpenRejected(version, m)))]
        \/ /\ clients' = [Connected(clients, c) EXCEPT ![c] = ClientQuery(@, o, TableQuery)]
           /\ ops' = [ops EXCEPT ![o] = [op EXCEPT !.pc = "tableQuery"]]
  /\ UNCHANGED <<version, fold, tls>>

\* the connection closed after the first catalog query, before the second
MetadataAfterTableQueryEndsFirst(o) ==
  /\ ops[o].pc = "tableQuery"
  /\ LET op == ops[o]
     IN \/ \E rows \in TableRowSets :
             /\ clients' = [clients EXCEPT ![op.client] =
                              ClientQuery(ClientEnd(ClientResolved(@, o, TableQuery), o),
                                          o, KeysQuery)]
             /\ ops' = [ops EXCEPT ![o] = [op EXCEPT !.pc = "keysQuery",
                                                    !.entities = FoldColumns(rows, <<>>)]]
        \/ \E m \in QueryErrors :
             Finally(o, op, [clients EXCEPT ![op.client] = ClientRejected(@, o, m)],
                     Throw(IntegrationError(FailedToConnectPrefix, m)))
  /\ UNCHANGED <<version, fold, tls>>

\* a rejected column-catalog query swallowed: the constraint-catalog query
\* is issued all the same
MetadataAfterTableQueryContinues(o) ==
  /\ ops[o].pc = "tableQuery"
  /\ LET op == ops[o]
     IN \/ \E rows \in TableRowSets :
             /\ clients' = [clients EXCEPT ![op.client] =
                              ClientQuery(ClientResolved(@, o, TableQuery), o, KeysQuery)]
             /\ ops' = [ops EXCEPT ![o] = [op EXCEPT !.pc = "keysQuery",
                                                    !.entities = FoldColumns(rows, <<>>)]]
        \/ \E m \in QueryErrors :
             /\ clients' = [clients EXCEPT ![op.client] =
                              ClientQuery(ClientRejected(@, o, m), o, KeysQuery)]
             /\ ops' = [ops EXCEPT ![o] = [op EXCEPT !.pc = "keysQuery"]]
  /\ UNCHANGED <<version, fold, tls>>

\* the column-catalog query settles: its rows are folded, then the
\* constraint-catalog query is issued
MetadataAfterTableQuery(o) ==
  /\ ops[o].pc = "tableQuery"
  /\ LET op == ops[o]
     IN \/ \E rows \in TableRowSets :
             /\ clients' = [clients EXCEPT ![op.client] =
                              ClientQuery(ClientResolved(@, o, TableQuery), o, KeysQuery)]
             /\ ops' = [ops EXCEPT ![o] = [op EXCEPT !.pc = "keysQuery",
                                                    !.entities = FoldColumns(rows, <<>>)]]
        \/ \E m \in QueryErrors :
             Finally(o, op, [clients EXCEPT ![op.client] = ClientRejected(@, o, m)],
                     Throw(IntegrationError(FailedToConnectPrefix, m)))
  /\ UNCHANGED <<version, fold, tls>>

\* the constraint-catalog query settles: its rows are folded into the tables
MetadataAfterKeysQuery(o) ==
  /\ ops[o].pc = "keysQuery"
  /\ LET op == ops[o]
     IN \/ \E rows \in KeyRowSets :
             LET entities == FoldKeys(rows, op.entities)
             IN Finally(o, [op EXCEPT !.entities = entities],
                        [clients EXCEPT ![op.client] = ClientResolved(@, o, KeysQuery)],
                        Return(TRUE, entities))
        \/ \E m \in QueryErrors :
             Finally(o, op, [clients EXCEPT ![op.client] = ClientRejected(@, o, m)],
                     Throw(IntegrationError(FailedToConnectPrefix, m)))
  /\ UNCHANGED <<version, fold, tls>>

\* ---- test -----------------------------------------------------------------

\* test awaits open inside its try: whatever open throws is wrapped by its
\* catch, and its finally runs with `client` still null
TestCall(o) ==
  /\ ops[o].pc = "idle"
  /\ \E cfg \in Configs :
       LET op == [ops[o] EXCEPT !.kind = "test", !.cfg = cfg]
       IN Open(o, op, IntegrationError(TestFailedPrefix, OpenCheck(version, cfg)))
  /\ UNCHANGED <<version, fold, tls>>

\* test with `client` assigned before connect settles: its finally ends the
\* client whose connect was rejected
TestAfterConnectEndsAttempted(o) ==
  /\ ops[o].pc = "connecting"
  /\ ops[o].kind = "test"
  /\ LET c == ops[o].created
         op == [ops[o] EXCEPT !.client = c]
     IN \/ \E m \in ConnectErrors :
             Finally(o, op, ConnectFailed(clients, c),
                     Throw(IntegrationError(TestFailedPrefix, OpenRejected(version, m))))
        \/ /\ clients' = [Connected(clients, c) EXCEPT ![c] = ClientQuery(@, o, LivenessQuery)]
           /\ ops' = [ops EXCEPT ![o] = [op EXCEPT !.pc = "querying"]]
  /\ UNCHANGED <<version, fold, tls>>

TestAfterConnect(o) ==
  /\ ops[o].pc = "connecting"
  /\ ops[o].kind = "test"
  /\ LET c == ops[o].created
         op == [ops[o] EXCEPT !.client = c]
     IN \/ \E m \in ConnectErrors :
             Finally(o, ops[o], ConnectFailed(clients, c),
                     Throw(IntegrationError(TestFailedPrefix, OpenRejected(version, m))))
        \/ /\ clients' = [Connected(clients, c) EXCEPT ![c] = ClientQuery(@, o, LivenessQuery)]
           /\ ops' = [ops EXCEPT ![o] = [op EXCEPT !.pc = "querying"]]
  /\ UNCHANGED <<version, fold, tls>>

TestAfterQuery(o) ==
  /\ ops[o].pc = "querying"
  /\ ops[o].kind = "test"
  /\ LET op == ops[o]
     IN \/ Finally(o, op, [clients EXCEPT ![op.client] = ClientResolved(@, o, LivenessQuery)],
                   Return(FALSE, <<>>))
        \/ \E m \in QueryErrors :
             Finally(o, op, [clients EXCEPT ![op.client] = ClientRejected(@, o, m)],
                     Throw(IntegrationError(TestFailedPrefix, m)))
  /\ UNCHANGED <<version, fold, tls>>

\* ---- specification --------------------------------------------------------

Next ==
  \/ \E o \in Ops : ExecuteCall(o)
  \/ \E o \in Ops : ExecuteAfterConnect(o)
  \/ \E o \in Ops : ExecuteAfterQuery(o)
  \/ \E o \in Ops : MetadataCall(o)
  \/ \E o \in Ops : MetadataAfterConnect(o)
  \/ \E o \in Ops : MetadataAfterTableQuery(o)
  \/ \E o \in Ops : MetadataAfterKeysQuery(o)
  \/ \E o \in Ops : TestCall(o)
  \/ \E o \in Ops : TestAfterConnect(o)
  \/ \E o \in Ops : TestAfterQuery(o)
  \/ \E o \in Ops : AfterEnd(o)
  \/ \E c \in ClientIds : DestroyConnectionSettles(c)

Spec == Init /\ [][Next]_vars

\* ---- the folds of metadata, row by row -----------------------------------

SeqsUpTo(S, n) == UNION {[1..k -> S] : k \in 0..n}

\* column-catalog rows: a lowercase column `id` of type int4 or a cased column
\* `Id` of type text, of one of two tables, in any order (the rows of one table
\* need not be contiguous)
CatalogColumnRows ==
  {ColumnRow(c[1], c[2], tn) : c \in {<<<<"i", "d">>, "int4">>, <<<<"I", "d">>, "text">>},
                               tn \in {"orders", "items"}}

\* constraint-catalog rows: a constraint of kind code 'p', 'f' or 'u' of one of
\* two tables
CatalogKeyRows ==
  {KeyRow(k[1], k[2], st) : k \in {<<"a_pkey", "p">>, <<"a_fkey", "f">>, <<"a_ukey", "u">>},
                            st \in {"orders", "items"}}

\* (the folds are the same text in both revisions)
FoldInit ==
  /\ version = "index.ts"
  /\ ops = [o \in Ops |-> IdleOp]
  /\ clients = [c \in ClientIds |-> NoClientObject]
  /\ tls = NoTls
  /\ \E rows \in SeqsUpTo(CatalogColumnRows, MaxColumnRows) :
       fold = [NoFold EXCEPT !.rows = rows]

\* one call of the reducer, lines 75-91
FoldColumnStep ==
  /\ fold.phase = "columns"
  /\ fold.i < Len(fold.rows)
  /\ fold' = [fold EXCEPT !.i = @ + 1,
                          !.entities = FoldColumn(@, fold.rows[fold.i + 1])]
  /\ UNCHANGED <<version, ops, clients, tls>>

\* the reduce is over; the constraint-catalog query answers, lines 94-96
KeysResult ==
  /\ fold.phase = "columns"
  /\ fold.i = Len(fold.rows)
  /\ \E keysRows \in SeqsUpTo(CatalogKeyRows, MaxKeyRows) :
       fold' = [fold EXCEPT !.phase = "keys", !.keysRows = keysRows]
  /\ UNCHANGED <<version, ops, clients, tls>>

\* one call of the forEach callback, lines 97-102
FoldKeyStep ==
  /\ fold.phase = "keys"
  /\ fold.j < Len(fold.keysRows)
  /\ fold' = [fold EXCEPT !.j = @ + 1,
                          !.entities = FoldKey(@, fold.keysRows[fold.j + 1])]
  /\ UNCHANGED <<version, ops, clients, tls>>

\* return { dbSchema: { tables: entities } }, lines 103-105
FoldReturn ==
  /\ fold.phase = "keys"
  /\ fold.j = Len(fold.keysRows)
  /\ fold' = [fold EXCEPT !.phase = "returned"]
  /\ UNCHANGED <<version, ops, clients, tls>>

FoldNext == FoldColumnStep \/ KeysResult \/ FoldKeyStep \/ FoldReturn

SpecFold == FoldInit /\ [][FoldNext]_vars

\* ---- the TLS options, from every connection configuration ------------------

\* open is past its precondition checks, called with any connection
\* configuration and with either timeout. The code is the same text in both
\* revisions.
TlsInit ==
  /\ version = "index.ts"
  /\ ops = [o \in Ops |-> IdleOp]
  /\ clients = [c \in ClientIds |-> NoClientObject]
  /\ fold = NoFold
  /\ \E connection \in Connections :
       \E timeout \in {DefaultConnectionTimeout, TEST_CONNECTION_TIMEOUT} :
         tls = [NoTls EXCEPT !.connection = connection, !.timeout = timeout]

\* lines 137-147: ssl_config is built
TlsSslConfig ==
  /\ tls.step = "checked"
  /\ tls' = [tls EXCEPT !.ssl_config = sslConfig(tls.connection), !.step = "ssl"]
  /\ UNCHANGED <<version, ops, clients, fold>>

\* lines 149-157: the options new Client is called with (host, user,
\* password, database and port are copied from the configuration and are
\* left out)
TlsNewClient ==
  /\ tls.step = "ssl"
  /\ tls' = [tls EXCEPT !.options = [ssl |-> tls.ssl_config,
                                     connectionTimeoutMillis |-> tls.timeout],
                        !.step = "client"]
  /\ UNCHANGED <<version, ops, clients, fold>>

TlsNext == TlsSslConfig \/ TlsNewClient

SpecTls == TlsInit /\ [][TlsNext]_vars

\* ---- what the claims speak of --------------------------------------------

Done(o) == ops[o].pc = "done"

\* open succeeded for o: its `client` holds the connection
Opened(o) == ops[o].client # NoClient

\* the driver calls `call` that operation o made, on whatever client
CallsBy(o, call) ==
  UNION {{<<c, i>> : i \in {k \in DOMAIN clients[c].log :
                              /\ clients[c].log[k].op = o
                              /\ clients[c].log[k].call = call}} : c \in ClientIds}

\* the positions of the calls `call` in the log of client c
CallsOn(c, call) == {i \in 1..Len(clients[c].log) : clients[c].log[i].call = call}

\* the messages the driver rejected a statement of client c with
RejectedWith(c) == {clients[c].log[i].text : i \in CallsOn(c, "rejected")}

\* a body of length zero, or no body
BodyEmpty(body) == ~body.defined \/ body.text = <<>>

\* a body made of whitespace only (the empty body included)
BodyBlank(body) == \A i \in 1..Len(body.text) : body.text[i] = " "

EmptyResult == Return(FALSE, <<>>)

\* C1: in each of execute, metadata and test, on every exit path, a connection
\* that was opened has close invoked on it exactly once when the operation is
\* over, and never twice.
C1_ClosedExactlyOnce ==
  /\ \A o \in Ops : Done(o) /\ Opened(o) => Cardinality(CallsOn(ops[o].client, "end")) = 1
  /\ \A c \in ClientIds : Cardinality(CallsOn(c, "end")) <= 1

\* C2: execute called with an empty SQL body has closed the connection it
\* opened (one close call) when it returns the empty result.
C2_EmptyBodyStillCloses ==
  \A o \in Ops :
    (ops[o].kind = "execute" /\ Done(o) /\ Opened(o) /\ BodyEmpty(ops[o].body))
      => Cardinality(CallsBy(o, "end")) = 1

C4_QueryFailureWrapped ==
  \A o \in Ops :
    (ops[o].kind = "execute" /\ Done(o) /\ Opened(o))
      => \A m \in RejectedWith(ops[o].client) :
           /\ ops[o].outcome = Throw(<<QueryFailedPrefix>> \o m)
           /\ Cardinality(CallsBy(o, "end")) = 1

\* C5 as stated: one call of test with a valid config makes one connect, runs
\* the liveness statement and makes one close, whatever the outcome.
C5_TestOneOpenOneClose ==
  \A o \in Ops :
    (ops[o].kind = "test" /\ Done(o) /\ ValidConfig(ops[o].cfg))
      => /\ Cardinality(CallsBy(o, "connect")) = 1
         /\ Cardinality(CallsBy(o, "query")) = 1
         /\ Cardinality(CallsBy(o, "end")) = 1

\* C5 amended: one call of test with a valid config makes exactly one connect;
\* when the connect succeeds it issues the liveness statement once and makes
\* exactly one close, whether the statement succeeds or fails; when the
\* connect fails it issues no statement and makes no close.
C5_TestOneOpenCloseIfOpened ==
  \A o \in Ops :
    (ops[o].kind = "test" /\ Done(o) /\ ValidConfig(ops[o].cfg))
      => /\ Cardinality(CallsBy(o, "connect")) = 1
         /\ IF clients[ops[o].created].conn = "connectFailed"
            THEN CallsBy(o, "query") = {} /\ CallsBy(o, "end") = {}
            ELSE /\ Cardinality(CallsBy(o, "query")) = 1
                 /\ \A q \in CallsBy(o, "query") : clients[q[1]].log[q[2]].text = LivenessQuery
                 /\ Cardinality(CallsBy(o, "end")) = 1

C5_Witness ==
  \E o \in Ops :
    /\ ops[o].kind = "test" /\ Done(o) /\ ValidConfig(ops[o].cfg) /\ Opened(o)
    /\ RejectedWith(ops[o].client) # {}
    /\ Cardinality(CallsBy(o, "end")) = 1

\* C6: in metadata, a failure of the driver in the column-catalog query or in
\* the constraint-catalog query reaches the caller as 'Failed to connect to
\* Postgres, ' followed by the driver's message, and the connection is closed.
C6_IntrospectionFailureSurfaced ==
  \A o \in Ops :
    (ops[o].kind = "metadata" /\ Done(o) /\ Opened(o))
      => \A m \in RejectedWith(ops[o].client) :
           /\ ops[o].outcome = Throw(<<FailedToConnectPrefix>> \o m)
           /\ CallsBy(o, "end") # {}

\* C7: an operation that fails after its connection was opened throws to its
\* caller only once the close of that connection is over: not while the
\* connection is closing.
C7_ThrowAfterCloseCompletes ==
  \A o \in Ops :
    (Done(o) /\ Opened(o) /\ ops[o].outcome.type = "throw")
      => clients[ops[o].client].conn # "ending"

\* C8: a failure of the close is never what the caller gets: the caller gets
\* the error of the main operation if it failed and its result if it succeeded.
C8_CloseFailureNotResignaled ==
  \A o \in Ops :
    (Done(o) /\ Opened(o) /\ clients[ops[o].client].conn = "endFailed")
      => ops[o].outcome = ops[o].pending

\* C9: no driver call is made on a connection after close was invoked on it:
\* once end is called it is the last call in the client's log, and a client on
\* which end was called never is open again.
C9_NothingAfterClose ==
  \A c \in ClientIds :
    /\ \A i \in CallsOn(c, "end") : i = Len(clients[c].log)
    /\ (CallsOn(c, "end") # {}) <=> (clients[c].conn \in {"ending", "ended", "endFailed"})

C9_Witness ==
  \E c \in ClientIds :
    /\ clients[c].conn = "ended"
    /\ Cardinality(CallsOn(c, "query")) = 2
    /\ CallsOn(c, "end") = {Len(clients[c].log)}

\* C10: operations running concurrently each open their own connection: every
\* call on a client is made by the operation that built it, the client an
\* operation uses is the one it built, and no two operations hold one client.
C10_NoSharedConnection ==
  /\ \A c \in ClientIds :
       \A i \in 1..Len(clients[c].log) : clients[c].log[i].op = clients[c].owner
  /\ \A o \in Ops :
       /\ ops[o].created # NoClient => clients[ops[o].created].owner = o
       /\ Opened(o) => ops[o].client = ops[o].created
  /\ \A o1, o2 \in Ops :
       (o1 # o2 /\ ops[o1].created # NoClient) => ops[o1].created # ops[o2].created

C10_Witness ==
  \E o1, o2 \in Ops :
    /\ o1 # o2
    /\ ops[o1].pc \in {"querying", "tableQuery", "keysQuery"}
    /\ ops[o2].pc \in {"querying", "tableQuery", "keysQuery"}
    /\ ops[o1].client # ops[o2].client
    /\ clients[ops[o1].client].conn = "open"
    /\ clients[ops[o2].client].conn = "open"

\* ---- the folds: what the claims speak of ----------------------------------

\* the column-catalog rows the reducer has consumed
Consumed == SubSeq(fold.rows, 1, fold.i)

\* the constraint-catalog rows the forEach has consumed
ConsumedKeys == SubSeq(fold.keysRows, 1, fold.j)

RowsOfTable(rows, tn) == SelectSeq(rows, LAMBDA r : r.table_name = tn)
TableNames(rows) == {rows[k].table_name : k \in DOMAIN rows}
FirstRowOf(rows, tn) ==
  CHOOSE k \in DOMAIN rows :
    /\ rows[k].table_name = tn
    /\ \A m \in 1..(k - 1) : rows[m].table_name # tn

Quoted(name) == <<"\"">> \o name \o <<"\"">>

RECURSIVE TotalColumns(_)
TotalColumns(tables) ==
  IF tables = <<>> THEN 0 ELSE Len(Head(tables).columns) + TotalColumns(Tail(tables))

\* C11: folding N column-catalog rows that span K table names (the rows of a
\* table contiguous or not) yields K tables with pairwise distinct names, in
\* first-appearance order; each table's columns are its rows, in the order of
\* the stream; the columns are N in all.
C11_FoldGroupsByTable ==
  LET rows == Consumed
      e == fold.entities
  IN /\ Len(e) = Cardinality(TableNames(rows))
     /\ {e[a].name : a \in DOMAIN e} = TableNames(rows)
     /\ \A a, b \in DOMAIN e : a # b => e[a].name # e[b].name
     /\ \A a, b \in DOMAIN e :
          a < b => FirstRowOf(rows, e[a].name) < FirstRowOf(rows, e[b].name)
     /\ \A a \in DOMAIN e :
          LET mine == RowsOfTable(rows, e[a].name)
          IN /\ Len(e[a].columns) = Len(mine)
             /\ \A k \in DOMAIN mine :
                  /\ e[a].columns[k].type = mine[k].column_type
                  /\ e[a].columns[k].name \in {mine[k].name, Quoted(mine[k].name)}
     /\ TotalColumns(e) = Len(rows)

\* three rows folded, the rows of one table not contiguous
C11_Witness ==
  /\ fold.i = 3
  /\ fold.rows[1].table_name = fold.rows[3].table_name
  /\ fold.rows[1].table_name # fold.rows[2].table_name
  /\ fold.rows[1].name # fold.rows[3].name
  /\ Len(fold.entities) = 2
  /\ Len(fold.entities[1].columns) = 2

\* the name a column is to be stored under: quoted unless all lowercase
StoredName(name) == IF name = toLowerCase(name) THEN name ELSE Quoted(name)

\* C12: whatever the position of a column-catalog row in the stream (first row
\* of its table or a later one), its column is stored under the raw name in
\* double quotes when the raw name is not all lowercase, and under the raw name
\* when it is.
C12_CasedNamesQuoted ==
  \A a \in DOMAIN fold.entities :
    LET mine == RowsOfTable(Consumed, fold.entities[a].name)
    IN \A k \in DOMAIN mine :
         k <= Len(fold.entities[a].columns)
           => fold.entities[a].columns[k].name = StoredName(mine[k].name)

\* the KeyDescriptor of a constraint row
KeyDescriptor(key) ==
  [name |-> key.constraint_name,
   type |-> IF key.constraint_type = "p" THEN "primary_key" ELSE "foreign_key"]

EntityNames == {fold.entities[a].name : a \in DOMAIN fold.entities}
EntityNamed(tn) == fold.entities[CHOOSE a \in DOMAIN fold.entities : fold.entities[a].name = tn]

\* C13: for every constraint row whose table is in the schema graph, a
\* KeyDescriptor with the row's constraint name, of type primary_key for kind
\* code 'p' and foreign_key for any other code, is appended to the keys of
\* that table.
C13_KeyAppended ==
  /\ \A k \in DOMAIN ConsumedKeys :
       ConsumedKeys[k].self_table \in EntityNames
         => \E n \in DOMAIN EntityNamed(ConsumedKeys[k].self_table).keys :
              EntityNamed(ConsumedKeys[k].self_table).keys[n] = KeyDescriptor(ConsumedKeys[k])
  /\ (fold.j > 0 /\ fold.keysRows[fold.j].self_table \in EntityNames)
       => LET keys == EntityNamed(fold.keysRows[fold.j].self_table).keys
          IN keys # <<>> /\ keys[Len(keys)] = KeyDescriptor(fold.keysRows[fold.j])

\* a 'p' row and a row of another code, both folded into the same table
C13_Witness ==
  /\ fold.j = 2
  /\ fold.keysRows[1].constraint_type = "p"
  /\ fold.keysRows[2].constraint_type = "u"
  /\ fold.keysRows[1].self_table = fold.keysRows[2].self_table
  /\ fold.keysRows[1].self_table \in EntityNames
  /\ EntityNamed(fold.keysRows[1].self_table).keys =
       <<[name |-> "a_pkey", type |-> "primary_key"], [name |-> "a_ukey", type |-> "foreign_key"]>>

\* C14: a constraint row whose table matches no table built from the
\* column-catalog rows is dropped: processing it changes no table's columns or
\* keys, and the fold goes on to return.
C14_UnknownTableDropped ==
  [][(/\ fold.phase = "keys"
      /\ fold.j < Len(fold.keysRows)
      /\ fold'.j = fold.j + 1
      /\ fold.keysRows[fold.j + 1].self_table \notin EntityNames)
       => /\ fold'.entities = fold.entities
          /\ fold'.phase = "keys"]_vars

\* a constraint of an unknown table was processed and the schema was returned
C14_Witness ==
  /\ fold.phase = "returned"
  /\ fold.entities # <<>>
  /\ \E k \in DOMAIN fold.keysRows : fold.keysRows[k].self_table \notin TableNames(fold.rows)
  /\ fold.entities = FoldColumns(fold.rows, <<>>)

\* C19: the keys of each table are the KeyDescriptors of the constraint rows
\* that name the table, one per row, in scan order; duplicate rows give
\* duplicate KeyDescriptors.
C19_KeysInScanOrder ==
  \A a \in DOMAIN fold.entities :
    LET mine == SelectSeq(ConsumedKeys, LAMBDA r : r.self_table = fold.entities[a].name)
    IN fold.entities[a].keys = [k \in DOMAIN mine |-> KeyDescriptor(mine[k])]

\* the same constraint row twice
C19_Witness ==
  /\ fold.j = 2
  /\ fold.keysRows[1] = fold.keysRows[2]
  /\ fold.keysRows[1].self_table \in EntityNames
  /\ Len(EntityNamed(fold.keysRows[1].self_table).keys) = 2

\* the first of the four preconditions of open that cfg violates, in the order
\* datasource configured, endpoint present, authentication present, database
\* name present (0: none is violated)
ViolatedPrecondition(cfg) ==
  IF ~cfg.present THEN 1
  ELSE IF ~cfg.endpoint THEN 2
  ELSE IF ~cfg.authentication THEN 3
  ELSE IF ~cfg.databaseName THEN 4
  ELSE 0

\* the reason an error carries: the last piece of its message, after the
\* prefixes the handlers put in front of it
Reason(message) == message[Len(message)]

InFlight(c) ==
  Cardinality(CallsOn(c, "query"))
    - Cardinality(CallsOn(c, "resolved")) - Cardinality(CallsOn(c, "rejected"))

\* C16: in a metadata operation the constraint-catalog query is issued only
\* after the column-catalog query has resolved and its rows are folded into
\* tables, and at most one of the two queries is in flight at any time.
C16_CatalogQueriesSequential ==
  \A o \in Ops :
    ops[o].kind = "metadata" /\ Opened(o)
      => LET c == ops[o].client
             log == clients[c].log
         IN /\ InFlight(c) <= 1
            /\ \A i \in CallsOn(c, "query") :
                 log[i].text = KeysQuery
                   => /\ \E j \in 1..(i - 1) :
                           log[j].call = "resolved" /\ log[j].text = TableQuery
                      /\ \E rows \in TableRowSets :
                           /\ rows # <<>>
                           /\ Len(ops[o].entities) > 0
                           /\ \A a \in DOMAIN ops[o].entities :
                                Len(ops[o].entities[a].columns)
                                  = Len(RowsOfTable(rows, ops[o].entities[a].name))
                           /\ TotalColumns(ops[o].entities) = Len(rows)

\* the constraint-catalog query is in flight, the column-catalog one settled
C16_Witness ==
  \E o \in Ops :
    /\ ops[o].kind = "metadata"
    /\ ops[o].pc = "keysQuery"
    /\ InFlight(ops[o].client) = 1
    /\ clients[ops[o].client].log[Len(clients[ops[o].client].log)].text = KeysQuery
    /\ ops[o].entities # <<>>

\* a step of operation o has failed: its connect or one of its statements
\* was rejected by the driver
StepFailed(o) ==
  /\ ops[o].created # NoClient
  /\ \/ clients[ops[o].created].conn = "connectFailed"
     \/ CallsOn(ops[o].created, "rejected") # {}

\* C17: every driver call of an operation is on the one client it created;
\* connect is the first call on a client and is never repeated; no statement
\* is issued twice by an operation; after a rejected connect nothing is
\* issued, after a rejected statement no further statement is; once a step
\* has failed the handler is over or closing, and it ends with an error.
C17_NoRetries ==
  /\ \A c \in ClientIds :
       LET log == clients[c].log
       IN /\ clients[c].conn = "connectFailed" => Len(log) = 1
          /\ \A i \in DOMAIN log : ops[log[i].op].created = c
          /\ \A j \in 2..Len(log) :
               /\ log[j].call # "connect"
               /\ log[j].call = "query"
                    => \A i \in 1..(j - 1) :
                         /\ log[i].call # "rejected"
                         /\ log[i].call = "query"
                              => log[i].op # log[j].op \/ log[i].text # log[j].text
  /\ \A o \in Ops :
       StepFailed(o)
         => /\ ops[o].pc \in {"done", "closing"}
            /\ Done(o) => ops[o].outcome.type = "throw"

\* a metadata operation over after its column-catalog query was rejected:
\* connect, the query, its rejection, end
C17_Witness ==
  \E o \in Ops :
    /\ ops[o].kind = "metadata"
    /\ Done(o)
    /\ StepFailed(o)
    /\ CallsOn(ops[o].created, "rejected") # {}
    /\ Cardinality(CallsBy(o, "query")) = 1
    /\ ops[o].outcome.type = "throw"

\* C18: when the statement of an execute with a non-empty body has resolved,
\* the operation has issued exactly one statement, whose text is the body and
\* whose values are the positional parameters, both as execute read them; the
\* result execute produced carries the normalizer applied to the rows of the
\* driver, which are those rows when no names collide; an execute that
\* returns returns that result.
C18_StatementPassedThrough ==
  \A o \in Ops :
    (/\ ops[o].kind = "execute"
     /\ Opened(o)
     /\ ~BodyEmpty(ops[o].body)
     /\ CallsOn(ops[o].client, "resolved") # {})
      => LET log == clients[ops[o].client].log
         IN /\ Cardinality(CallsBy(o, "query")) = 1
            /\ \A i \in CallsOn(ops[o].client, "query") :
                 /\ log[i].op = o
                 /\ log[i].text = ops[o].body.text
                 /\ log[i].params = ops[o].params
            /\ ops[o].params \in PreparedStatementContexts
            /\ ops[o].pending.type = "return"
            /\ ops[o].pending.outputSet
            /\ ops[o].pending.output \in {normalizeTableColumnNames(r) : r \in QueryRowSets}
            /\ ops[o].pending.output \in QueryRowSets
            /\ Done(o) /\ ops[o].outcome.type = "return" => ops[o].outcome = ops[o].pending

\* an execute of a statement with positional values returned its rows
C18_Witness ==
  \E o \in Ops :
    /\ ops[o].kind = "execute"
    /\ Done(o)
    /\ ops[o].body.text = <<"a">>
    /\ ops[o].params # <<>>
    /\ ops[o].outcome.type = "return"
    /\ ops[o].outcome.outputSet
    /\ ops[o].outcome.output \in QueryRowSets

\* TLS is on / self-signed mode is selected in the connection configuration
TlsOn == tls.connection.present /\ tls.connection.useSsl = "true"
SelfSigned == tls.connection.present /\ tls.connection.useSelfSignedSsl = "true"

\* C20: in the options new Client is called with, the TLS option set is
\* undefined when TLS is off, whatever the self-signed flag; when TLS is on it
\* is an object with rejectUnauthorized false; its ca, key and cert are the
\* configured ones when TLS is on and self-signed mode is selected, and are
\* not set otherwise.
C20_TlsOptions ==
  tls.step = "client"
    => LET ssl == tls.options.ssl
       IN /\ ~TlsOn => ssl = SslUndefined
          /\ TlsOn => ssl.defined /\ ssl.rejectUnauthorized = "false"
          /\ TlsOn /\ SelfSigned
               => /\ ssl.ca = tls.connection.ca
                  /\ ssl.key = tls.connection.key
                  /\ ssl.cert = tls.connection.cert
          /\ ~(TlsOn /\ SelfSigned)
               => ssl.ca = Undefined /\ ssl.key = Undefined /\ ssl.cert = Undefined

\* the client was built with TLS on, self-signed mode selected and key
\* material configured
C20_Witness ==
  /\ tls.step = "client"
  /\ TlsOn
  /\ SelfSigned
  /\ tls.options.ssl.rejectUnauthorized = "false"
  /\ tls.options.ssl.ca = "CA"
  /\ tls.options.ssl.key = "KEY"
  /\ tls.options.ssl.cert = "CERT"

\* operation o is over with the error of a rejected connect
ConnectRejected(o) ==
  /\ Done(o)
  /\ ops[o].outcome.type = "throw"
  /\ Reason(ops[o].outcome.message) \in {m[Len(m)] : m \in ConnectErrors}

\* C21: an operation whose open failed ends with an error, having issued no
\* statement and called no close. On a violated precondition no client is
\* built and the driver is not called at all; on a rejected connect the
\* client keeps its one connect call and is never ended, and the handler's
\* `client` stays unset.
C21_OpenFailureIssuesNothing ==
  /\ \A o \in Ops :
       /\ ops[o].kind # "none" /\ ~ValidConfig(ops[o].cfg)
            => /\ Done(o) /\ ops[o].outcome.type = "throw"
               /\ ops[o].created = NoClient /\ ~Opened(o)
               /\ \A c \in ClientIds : \A i \in DOMAIN clients[c].log :
                    clients[c].log[i].op # o
       /\ ConnectRejected(o)
            => /\ ops[o].created # NoClient
               /\ ~Opened(o)
               /\ clients[ops[o].created].conn = "connectFailed"
               /\ Len(clients[ops[o].created].log) = 1
               /\ clients[ops[o].created].log[1].call = "connect"
  /\ \A c \in ClientIds :
       clients[c].conn = "connectFailed"
         => /\ CallsOn(c, "query") = {} /\ CallsOn(c, "end") = {}
            /\ ConnectRejected(clients[c].owner)
            /\ ops[clients[c].owner].created = c

\* a test is over after its connect was rejected: its finally block ran
C21_Witness ==
  \E o \in Ops :
    /\ ops[o].kind = "test"
    /\ ConnectRejected(o)
    /\ ops[o].created # NoClient
    /\ clients[ops[o].created].conn = "connectFailed"
    /\ clients[ops[o].created].log = <<Event(o, "connect", <<>>)>>

====
